---- MODULE Spec2Model ----
(***************************************************************************)
(* State-machine model of utils/image_cache.py (class ImageCache):         *)
(*   get_cached_image_path  - URL -> cache path (pure, plus makedirs)      *)
(*   download_image         - cache hit / retrying fetch / fallback        *)
(*   clear_old_cache        - oldest-first eviction under a size budget    *)
(* The filesystem, the HTTP server and the clock are the environment; each *)
(* call is split at its external operations (one action per operation).    *)
(***************************************************************************)
EXTENDS Integers, Sequences, FiniteSets, TLC

\* ------------------------------------------------------------------ bounds
\* Number of calls (download_image + clear_old_cache) started in a behaviour.
MaxCalls == 2
\* Largest value of the logical clock that stamps modification times.
MaxTime == 2
\* Largest budget, in megabytes, a caller passes to clear_old_cache.
MaxBudget == 2

\* ------------------------------------------------- configuration (Config)
\* utils.config is read at call time; the values are those of a deployment
\* that satisfies the documented ranges (retries >= 1, delays >= retries-1).
IMAGE_DOWNLOAD_MAX_RETRIES == 3
IMAGE_DOWNLOAD_RETRY_DELAYS == <<1, 2, 4>>
IMAGE_CACHE_MAX_SIZE_MB == 2
IMAGES_CACHE_DIR == "cache"

\* 1024 * 1024, the divisor that converts bytes to megabytes.
MB == 1048576
\* chunk_size of response.iter_content.
CHUNK_SIZE == 8192
\* Buffer sizes of the file object open(cached_path, 'wb') returns: the block
\* size the file system reports, or io.DEFAULT_BUFFER_SIZE.
BLOCK_SIZE == 4096
DEFAULT_BUFFER_SIZE == 8192
BufferSizes == {BLOCK_SIZE, DEFAULT_BUFFER_SIZE}
\* File sizes at which a write to the file may stop short: the disk is full,
\* or the size limit of the file is reached, when the file has that many bytes.
ShortStops == {3, 100, CHUNK_SIZE}

\* -------------------------------------------------------- Python values
\* A Python argument value: None, a str (sequence of characters) or an int.
PyNone == [tag |-> "none", str |-> <<>>, num |-> 0]
PyStr(s) == [tag |-> "str", str |-> s, num |-> 0]
PyInt(n) == [tag |-> "int", str |-> <<>>, num |-> n]

\* Python truthiness of an argument value (bool(x)).
Truthy(x) ==
    CASE x.tag = "none" -> FALSE
      [] x.tag = "str" -> Len(x.str) > 0
      [] OTHER -> x.num # 0

\* isinstance(x, str)
IsStr(x) == x.tag = "str"

\* ------------------------------------------------------ path resolution
\* s.rfind(c), 1-based, 0 when c does not occur.
RFind(s, c) ==
    LET hits == {i \in 1..Len(s) : s[i] = c}
    IN IF hits = {} THEN 0 ELSE CHOOSE i \in hits : \A j \in hits : j <= i

\* Mutant of BeforeQuery: the query string is not cut off.
BeforeQueryNone(s) == s
\* s.split('?')[0]: everything before the first '?'.
BeforeQuery(s) ==
    LET hits == {i \in 1..Len(s) : s[i] = "?"}
    IN IF hits = {} THEN s
       ELSE SubSeq(s, 1, (CHOOSE i \in hits : \A j \in hits : i <= j) - 1)

\* os.path.splitext(p)[-1]: from the last dot of the last path component to
\* the end, provided a non-dot character precedes it in that component.
SplitExt(p) ==
    LET sepIndex == RFind(p, "/")
        dotIndex == RFind(p, ".")
    IN IF /\ dotIndex > sepIndex
          /\ \E k \in (sepIndex + 1)..(dotIndex - 1) : p[k] # "."
       THEN SubSeq(p, dotIndex, Len(p))
       ELSE <<>>

\* file_extension = os.path.splitext(image_url.split('?')[0])[-1] or '.jpg'
FileExtension(url) ==
    LET e == SplitExt(BeforeQuery(url))
    IN IF e # <<>> THEN e ELSE <<".", "j", "p", "g">>

\* hashlib.md5(url.encode()).hexdigest(): a digest token that depends on every
\* character of the URL and on nothing else (collisions are not modelled).
Md5Hex(url) == [md5 |-> url]

\* cached_path = os.path.join(cache_dir, url_hash + file_extension)
get_cached_image_path(url) ==
    [dir |-> IMAGES_CACHE_DIR,
     name |-> [hash |-> Md5Hex(url), ext |-> FileExtension(url)]]

\* --------------------------------------------------------------- inputs
\* http://h/a.png, and http://h.c/b?v.2 (a query string with a dot, after a
\* path without an extension).
U1 == <<"h", "t", "t", "p", ":", "/", "/", "h", "/", "a", ".", "p", "n", "g">>
U2 == <<"h", "t", "t", "p", ":", "/", "/", "h", ".", "c", "/", "b", "?", "v", ".", "2">>
Urls == {U1, U2}

\* Arguments a caller may pass as image_url.
UrlArgs == {PyStr(u) : u \in Urls} \cup {PyNone, PyStr(<<>>), PyInt(0), PyInt(5)}

\* A file of the cache directory that no modelled URL resolves to.
OtherPath == [dir |-> IMAGES_CACHE_DIR,
              name |-> [hash |-> Md5Hex(<<"o">>), ext |-> <<".", "j", "p", "g">>]]
\* A subdirectory the cache directory may hold.
SubdirPath == [dir |-> IMAGES_CACHE_DIR, name |-> [hash |-> Md5Hex(<<"s">>), ext |-> <<>>]]
NoPath == [dir |-> "", name |-> [hash |-> Md5Hex(<<>>), ext |-> <<>>]]

UrlPaths == {get_cached_image_path(u) : u \in Urls}
Paths == UrlPaths \cup {OtherPath}

\* ------------------------------------------------------------ file data
\* File contents are a sequence of extents: bytes lo..hi-1 of body b.
Extent(b, lo, hi) == [b |-> b, lo |-> lo, hi |-> hi]

RECURSIVE Size(_)
\* os.path.getsize of a file holding data.
Size(data) ==
    IF data = <<>> THEN 0 ELSE (data[1].hi - data[1].lo) + Size(Tail(data))

RECURSIVE TakeBytes(_, _)
\* The first n bytes of data.
TakeBytes(data, n) ==
    IF n = 0 \/ data = <<>> THEN <<>>
    ELSE LET e == data[1]
             l == e.hi - e.lo
         IN IF l <= n THEN <<e>> \o TakeBytes(Tail(data), n - l)
            ELSE <<Extent(e.b, e.lo, e.lo + n)>>

RECURSIVE DropBytes(_, _)
\* data without its first n bytes.
DropBytes(data, n) ==
    IF data = <<>> THEN <<>>
    ELSE IF n = 0 THEN data
    ELSE LET e == data[1]
             l == e.hi - e.lo
         IN IF l <= n THEN DropBytes(Tail(data), n - l)
            ELSE <<Extent(e.b, e.lo + n, e.hi)>> \o Tail(data)

RECURSIVE Merge(_)
\* Adjacent extents that continue each other are one run of bytes.
Merge(data) ==
    IF Len(data) < 2 THEN data
    ELSE IF data[1].b = data[2].b /\ data[1].hi = data[2].lo
         THEN Merge(<<Extent(data[1].b, data[1].lo, data[2].hi)>> \o SubSeq(data, 3, Len(data)))
         ELSE <<data[1]>> \o Merge(Tail(data))

\* f.write(chunk) at byte offset off of a file holding data (a gap left by a
\* truncation behind the writer reads as zero bytes).
WriteAt(data, off, e) ==
    LET have == Size(data)
        pad == IF off > have THEN <<Extent("zero", 0, off - have)>> ELSE <<>>
    IN Merge(TakeBytes(data, off) \o pad \o <<e>> \o DropBytes(data, off + (e.hi - e.lo)))

\* ------------------------------------------------------------ responses
\* Response bodies the server may send: id and length in bytes.
BodyA == [id |-> "A", len |-> CHUNK_SIZE + 1]
BodyB == [id |-> "B", len |-> 5]
BodyE == [id |-> "E", len |-> 0]
Bodies == {BodyA, BodyB, BodyE}

RECURSIVE Slices(_, _, _)
\* Bytes lo..hi-1 of a body in pieces of CHUNK_SIZE bytes, the last one shorter.
Slices(id, lo, hi) ==
    IF lo >= hi THEN <<>>
    ELSE LET m == IF lo + CHUNK_SIZE < hi THEN lo + CHUNK_SIZE ELSE hi
         IN <<Extent(id, lo, m)>> \o Slices(id, m, hi)

RECURSIVE ChunkedPieces(_, _, _)
\* The pieces of a body sent with Transfer-Encoding: chunked in HTTP chunks
\* of the given sizes: one piece per HTTP chunk, a longer chunk sliced.
ChunkedPieces(id, lo, sizes) ==
    IF sizes = <<>> THEN <<>>
    ELSE Slices(id, lo, lo + sizes[1]) \o ChunkedPieces(id, lo + sizes[1], Tail(sizes))

\* HTTP chunk sizes a server may send a body in.
HttpChunkings(body) ==
    IF body.id = "A" THEN {<<100, body.len - 100>>}
    ELSE IF body.id = "B" THEN {<<3, body.len - 3>>}
    ELSE {<<>>}

\* What response.iter_content(chunk_size=8192) does in one attempt: the
\* chunks it yields, and the exception it raises after them ("none": it ends).
Stream(pieces, brk) == [pieces |-> pieces, brk |-> brk]

\* The prefixes of a sequence of chunks, the whole sequence among them.
Prefixes(ps) == {SubSeq(ps, 1, k) : k \in 0..Len(ps)}

\* Byte counts after which a server may close the connection of a body it
\* announced with Content-Length.
EarlyCloses(body) ==
    IF body.id = "A" THEN {0, CHUNK_SIZE}
    ELSE IF body.id = "B" THEN {0, 3}
    ELSE {}

\* iter_content of a body that arrives whole, read by Content-Length or by
\* HTTP chunks.
CompleteContent(body) ==
    {Stream(Slices(body.id, 0, body.len), "none")}
    \cup {Stream(ChunkedPieces(body.id, 0, sizes), "none") : sizes \in HttpChunkings(body)}

\* response.iter_content(chunk_size=8192) of a body. A body announced with
\* Content-Length whose connection is closed early ends like a whole one, with
\* the bytes that arrived (the length is not compared with the bytes read),
\* and one whose connection breaks under a read raises ChunkedEncodingError
\* after the chunks read before. A chunked body raises ChunkedEncodingError
\* when the stream stops before its terminating chunk: after some of its
\* chunks, or after all of them.
IterContent(body) ==
    CompleteContent(body)
    \cup {Stream(Slices(body.id, 0, n), "none") : n \in EarlyCloses(body)}
    \cup {Stream(ps, "ChunkedEncodingError") :
            ps \in Prefixes(Slices(body.id, 0, body.len)) \ {Slices(body.id, 0, body.len)}}
    \cup UNION {{Stream(ps, "ChunkedEncodingError") :
                    ps \in Prefixes(ChunkedPieces(body.id, 0, sizes))} :
                sizes \in HttpChunkings(body)}

\* The whole body as file data.
FullData(body) == IF body.len = 0 THEN <<>> ELSE <<Extent(body.id, 0, body.len)>>

\* response.headers.get('content-type', '') values, each with the name the
\* call's trace shows it under; the empty one is a missing header.
CtImagePng == [name |-> "image/png", chars |-> <<"i", "m", "a", "g", "e", "/", "p", "n", "g">>]
CtTextHtml == [name |-> "text/html", chars |-> <<"t", "e", "x", "t", "/", "h", "t", "m", "l">>]
CtImageNoSlash == [name |-> "image", chars |-> <<"i", "m", "a", "g", "e">>]
CtMissing == [name |-> "", chars |-> <<>>]
ContentTypes == {CtImagePng, CtTextHtml, CtImageNoSlash, CtMissing}

\* s.startswith(prefix)
StartsWith(s, prefix) ==
    /\ Len(s) >= Len(prefix)
    /\ SubSeq(s, 1, Len(prefix)) = prefix

\* Mutant of IsImage: the content type is not looked at.
IsImageAny(content_type) == TRUE
\* content_type.startswith('image/')
IsImage(content_type) == StartsWith(content_type, <<"i", "m", "a", "g", "e", "/">>)

\* Exceptions requests.get / raise_for_status / iter_content may raise.
RequestsExceptions == {"ConnectionError", "Timeout", "HTTPError",
                       "ChunkedEncodingError", "RequestException"}
\* What requests.get followed by raise_for_status can raise; "ValueError"
\* stands for any exception that is not a requests exception.
GetExceptions == {"ConnectionError", "Timeout", "HTTPError", "RequestException",
                  "ValueError"}

\* Outcomes of requests.get + raise_for_status: an exception, or a successful
\* response with a content type and what iter_content does with its body.
Responses ==
    {[exc |-> x, ct |-> CtMissing, pieces |-> <<>>, brk |-> "none"] : x \in GetExceptions}
    \cup UNION {{[exc |-> "none", ct |-> ct, pieces |-> s.pieces, brk |-> s.brk] :
                    ct \in ContentTypes, s \in IterContent(b)} : b \in Bodies}

\* The responses with an image content type whose non-empty body arrives whole.
CompleteResponses ==
    UNION {{[exc |-> "none", ct |-> ct, pieces |-> s.pieces, brk |-> "none"] :
                ct \in {c \in ContentTypes : IsImage(c.chars)}, s \in CompleteContent(b)} :
            b \in {c \in Bodies : c.len > 0}}

\* Class of an exception, as the except clauses tell them apart.
ExcClass(exc) ==
    IF exc \in RequestsExceptions THEN "requests"
    ELSE IF exc = "PermissionError" THEN "permission"
    ELSE "other"

\* Mutant of Handler: every exception is retried.
HandlerRetryAll(exc) == "retry"
\* The except clauses of the attempt: requests exceptions fall through to the
\* backoff; PermissionError and every other Exception break the loop.
Handler(exc) ==
    IF exc = "ConnectionError" THEN "retry"
    ELSE IF exc = "Timeout" THEN "retry"
    ELSE IF exc \in RequestsExceptions THEN "retry"
    ELSE IF exc = "PermissionError" THEN "break"
    ELSE "break"

\* ------------------------------------------------------------------ state
VARIABLES
    dirExists,      \* the cache directory IMAGES_CACHE_DIR exists
    files,          \* regular files of the cache directory: path -> [data, mtime]
    subdirs,        \* paths of the subdirectories of the cache directory
    defaultExists,  \* a file exists at Config.DEFAULT_IMAGE_PATH
    now,            \* the clock that stamps modification times
    dl,             \* per caller: its download_image call, running or returned
    ev,             \* the clear_old_cache call in progress
    ncalls,         \* calls started so far
    bufferSize,     \* buffer size of the file objects open returns
    fullDirect      \* the file objects write a chunk as long as the buffer at once

vars == <<dirExists, files, subdirs, defaultExists, now, dl, ev, ncalls, bufferSize, fullDirect>>

DEFAULT_IMAGE_PATH == [dir |-> "assets", name |-> [hash |-> Md5Hex(<<>>), ext |-> <<".", "p", "n", "g">>]]

\* Return values of download_image (and "raised": an exception left the call).
RetPending == [kind |-> "pending", path |-> NoPath]
RetNone == [kind |-> "none", path |-> NoPath]
RetRaised == [kind |-> "raised", path |-> NoPath]
RetStr(path) == [kind |-> "str", path |-> path]

\* One entry of a call's trace of external operations.
Event(op, cls, n) == [op |-> op, cls |-> cls, n |-> n]

EmptyFiles == [x \in {} |-> 0]

DlIdle == [pc |-> "idle", url |-> PyNone, force |-> FALSE, path |-> NoPath,
           attempt |-> 0, pieces |-> <<>>, brk |-> "none", recv |-> <<>>,
           buf |-> <<>>, wr |-> <<>>, pos |-> 0, exc |-> "none",
           log |-> <<>>, ret |-> RetPending,
           pre |-> [dir |-> FALSE, files |-> EmptyFiles]]

\* listed and keys keep what the listing and the sort read, nsizes counts the
\* sizes the sum has read; raised tells that an exception left the call.
EvIdle == [pc |-> "idle", arg |-> PyNone, cached_files |-> <<>>, total |-> 0,
           max_size |-> 0, oldest |-> NoPath, deleted |-> <<>>, err |-> FALSE,
           raised |-> FALSE, names |-> <<>>, listed |-> {}, keys |-> EmptyFiles,
           nsizes |-> 0,
           pre |-> [dir |-> FALSE, files |-> EmptyFiles]]

Log(d, op, cls, n) == [d EXCEPT !.log = Append(@, Event(op, cls, n))]

\* No call is in progress (calls of the sequential specifications start here).
AllIdle ==
    /\ \A p \in DOMAIN dl : dl[p].pc = "done"
    /\ ev.pc \in {"idle", "done"}

\* ------------------------------------------------------- download_image
\* Mutant of IsInvalidUrl: only None is rejected.
IsInvalidUrlNoneOnly(image_url) == image_url.tag = "none"
\* not image_url or not isinstance(image_url, str)
IsInvalidUrl(image_url) == ~Truthy(image_url) \/ ~IsStr(image_url)

\* Entry and URL validation: an invalid URL returns None at once.
download_image(p, image_url, force_download) ==
    /\ IF p \in DOMAIN dl THEN dl[p].pc = "done" ELSE TRUE
    /\ ncalls < MaxCalls
    /\ ncalls' = ncalls + 1
    /\ LET d == [DlIdle EXCEPT !.url = image_url, !.force = force_download,
                               !.pre = [dir |-> dirExists, files |-> files]]
           d1 == IF IsInvalidUrl(image_url)
                 THEN [d EXCEPT !.pc = "done", !.ret = RetNone]
                 ELSE [d EXCEPT !.pc = "resolve"]
       IN dl' = [q \in DOMAIN dl \cup {p} |-> IF q = p THEN d1 ELSE dl[q]]
    /\ UNCHANGED <<bufferSize, fullDirect, dirExists, files, subdirs, defaultExists, now, ev>>

\* cached_path = cls.get_cached_image_path(image_url): os.makedirs, which may
\* fail when the directory has to be created, then the pure path computation.
Resolve(p) ==
    /\ p \in DOMAIN dl
    /\ dl[p].pc = "resolve"
    /\ \E ok \in BOOLEAN :
        LET d == Log(dl[p], "makedirs", "", 0)
        IN IF dirExists \/ ok
           THEN /\ dirExists' = TRUE
                /\ dl' = [dl EXCEPT ![p] =
                            [d EXCEPT !.pc = "check",
                                      !.path = get_cached_image_path(d.url.str)]]
           ELSE /\ dirExists' = dirExists
                /\ dl' = [dl EXCEPT ![p] =
                            [Log(d, "raise", "uncaught", 0) EXCEPT !.pc = "done", !.ret = RetRaised]]
    /\ UNCHANGED <<bufferSize, fullDirect, files, subdirs, defaultExists, now, ev, ncalls>>

\* Mutant of IsCacheHit: the shortcut is never taken.
IsCacheHitNever(force_download, path_exists) == FALSE
\* not force_download and os.path.exists(cached_path)
IsCacheHit(force_download, path_exists) == ~force_download /\ path_exists

\* The test of the cache-hit shortcut; the trace keeps what os.path.exists
\* answered (it is not called when force_download is true).
CacheCheck(p) ==
    /\ p \in DOMAIN dl
    /\ dl[p].pc = "check"
    /\ LET exists == dl[p].path \in DOMAIN files
           d == Log(dl[p], "exists",
                    IF dl[p].force THEN "" ELSE IF exists THEN "yes" ELSE "no", 0)
       IN dl' = [dl EXCEPT ![p] =
                    IF IsCacheHit(d.force, exists)
                    THEN [d EXCEPT !.pc = "hit"]
                    ELSE [d EXCEPT !.pc = "get"]]
    /\ UNCHANGED <<bufferSize, fullDirect, dirExists, files, subdirs, defaultExists, now, ev, ncalls>>

\* return cached_path, of the cache-hit shortcut.
ReturnCached(p) ==
    /\ p \in DOMAIN dl
    /\ dl[p].pc = "hit"
    /\ dl' = [dl EXCEPT ![p] = [@ EXCEPT !.pc = "done", !.ret = RetStr(dl[p].path)]]
    /\ UNCHANGED <<bufferSize, fullDirect, dirExists, files, subdirs, defaultExists, now, ev, ncalls>>

\* The file object of an attempt is gone: closed, its buffer empty.
Closed(d) == [d EXCEPT !.pieces = <<>>, !.brk = "none",
                       !.buf = <<>>, !.wr = <<>>, !.pos = 0, !.exc = "none"]

\* An attempt is over without success: its response and file object are gone.
Dropped(d) == [Closed(d) EXCEPT !.recv = <<>>]

\* The next iteration of `for attempt in range(MAX_RETRIES)`, or the end of
\* the loop (`continue`, and the fall-through after the backoff).
Continue(d) ==
    IF d.attempt + 1 < IMAGE_DOWNLOAD_MAX_RETRIES
    THEN [Dropped(d) EXCEPT !.attempt = @ + 1, !.pc = "get"]
    ELSE [Dropped(d) EXCEPT !.attempt = @ + 1, !.pc = "fallback"]

\* An exception raised inside the try block of an attempt.
Raise(d, exc) ==
    LET d1 == Log(Dropped(d), "raise", ExcClass(exc), 0)
    IN IF Handler(exc) = "retry" THEN [d1 EXCEPT !.pc = "backoff"]
       ELSE [d1 EXCEPT !.pc = "fallback"]

\* requests.get, raise_for_status and the content-type check of one attempt
\* that gets the response r.
GetResponse(p, r) ==
    /\ p \in DOMAIN dl
    /\ dl[p].pc = "get"
    /\ LET d == Log(dl[p], "get", "", dl[p].attempt)
       IN dl' = [dl EXCEPT ![p] =
                    IF r.exc # "none" THEN Raise(d, r.exc)
                    ELSE IF ~IsImage(r.ct.chars)
                    THEN Continue(Log(d, "response", r.ct.name, 0))
                    ELSE [Log(d, "response", r.ct.name, 0) EXCEPT
                            !.pc = "open", !.pieces = r.pieces, !.brk = r.brk,
                            !.recv = <<>>]]
    /\ UNCHANGED <<bufferSize, fullDirect, dirExists, files, subdirs, defaultExists, now, ev, ncalls>>

HttpGet(p) == \E r \in Responses : GetResponse(p, r)

\* open(cached_path, 'wb'): creates or truncates the file, or raises.
OpenFile(p) ==
    /\ p \in DOMAIN dl
    /\ dl[p].pc = "open"
    /\ \E denied \in BOOLEAN :
        LET d == Log(dl[p], "open", "", 0)
        IN IF denied
           THEN /\ dl' = [dl EXCEPT ![p] = Raise(d, "PermissionError")]
                /\ files' = files
           ELSE IF ~dirExists
           THEN /\ dl' = [dl EXCEPT ![p] = Raise(d, "FileNotFoundError")]
                /\ files' = files
           ELSE /\ dl' = [dl EXCEPT ![p] =
                            [d EXCEPT !.pc = "write", !.buf = <<>>, !.pos = 0, !.exc = "none"]]
                /\ files' = [q \in DOMAIN files \cup {d.path} |->
                                IF q = d.path THEN [data |-> <<>>, mtime |-> now]
                                ELSE files[q]]
    /\ UNCHANGED <<bufferSize, fullDirect, dirExists, subdirs, defaultExists, now, ev, ncalls>>

RECURSIVE WriteAll(_, _, _)
\* The extents written one after the other from byte offset off.
WriteAll(data, off, exts) ==
    IF exts = <<>> THEN data
    ELSE WriteAll(WriteAt(data, off, exts[1]), off + (exts[1].hi - exts[1].lo), Tail(exts))

\* A write of the raw file at its own offset (the file was opened without
\* O_APPEND); bytes written to a file that was unlinked meanwhile are lost.
RawWrite(fl, path, off, exts) ==
    IF path \in DOMAIN fl /\ exts # <<>>
    THEN [fl EXCEPT ![path] = [data |-> WriteAll(@.data, off, exts), mtime |-> now]]
    ELSE fl

\* Whether BufferedWriter.write copies n bytes into its empty buffer or
\* writes them to the file. The interpreters differ on a chunk exactly as
\* long as the buffer: Python 3.11 buffers it (direct FALSE), Python 3.13
\* writes it at once (direct TRUE).
Bufferable(n, size, direct) == IF direct THEN n < size ELSE n <= size

\* BufferedWriter.write keeps a chunk in its buffer when it fits into the
\* free part of the buffer.
FitsBuffer(buf, e, size, direct) ==
    /\ (e.hi - e.lo) <= size - Size(buf)
    /\ Bufferable(e.hi - e.lo, size, direct)

\* Outcomes of one write of n bytes at offset pos of the file: the number of
\* bytes written, -1 standing for an error (OSError, nothing written). A
\* number below n is a short write: the disk fills up, or the file reaches
\* its size limit, inside the write.
WriteCounts(pos, n) ==
    {-1, n} \cup {l - pos : l \in {k \in ShortStops : pos < k /\ k < pos + n}}

\* f.write after a write to the file: once the buffer is empty, a rest of
\* the chunk that the buffer takes is copied into the buffer.
Settle(d, size, direct) ==
    IF d.wr # <<>> /\ d.buf = <<>> /\ Bufferable(Size(d.wr), size, direct)
    THEN [d EXCEPT !.buf = d.wr, !.wr = <<>>]
    ELSE d

\* f.write at its next step: wr is what it has still to write of the chunk
\* it is at; when wr is empty the next chunk is taken from the iterator.
Taken(d) ==
    IF d.wr # <<>> THEN d
    ELSE [d EXCEPT !.pieces = Tail(@),
                   !.recv = Merge(Append(@, Head(d.pieces))),
                   !.wr = <<Head(d.pieces)>>]

\* What the next step of f.write writes to the file: nothing when the chunk
\* fits into the free part of the buffer (it is only buffered); else the
\* buffer, when it holds bytes; else the rest of the chunk, which is longer
\* than the buffer.
WriteData(d, size, direct) ==
    IF d.wr = <<>> /\ FitsBuffer(d.buf, Head(d.pieces), size, direct) THEN <<>>
    ELSE IF d.buf # <<>> THEN d.buf
    ELSE Taken(d).wr

\* One step of `for chunk in response.iter_content(): f.write(chunk)`, with
\* at most one write to the file, which writes n bytes. After a short write
\* the next step writes what is left. A write that fails (n = -1, OSError)
\* makes f.write give up the chunk; the buffer keeps what it held, and the
\* with block is left.
WriteBytes(p, n) ==
    /\ p \in DOMAIN dl
    /\ dl[p].pc = "write"
    /\ dl[p].exc = "none"
    /\ dl[p].wr # <<>> \/ dl[p].pieces # <<>>
    /\ LET d == dl[p]
           w == Taken(d)
           out == WriteData(d, bufferSize, fullDirect)
           flush == w.buf # <<>>
       IN IF out = <<>>
          THEN /\ n = 0
               /\ dl' = [dl EXCEPT ![p] = [w EXCEPT !.buf = Merge(@ \o w.wr), !.wr = <<>>]]
               /\ files' = files
          ELSE IF n = -1
          THEN /\ dl' = [dl EXCEPT ![p] = [w EXCEPT !.exc = "OSError", !.wr = <<>>]]
               /\ files' = files
          ELSE /\ files' = RawWrite(files, w.path, w.pos, TakeBytes(out, n))
               /\ dl' = [dl EXCEPT ![p] =
                            Settle([w EXCEPT
                                        !.buf = IF flush THEN DropBytes(out, n) ELSE <<>>,
                                        !.wr = IF flush THEN w.wr ELSE DropBytes(out, n),
                                        !.pos = @ + n],
                                   bufferSize, fullDirect)]
    /\ UNCHANGED <<bufferSize, fullDirect, dirExists, subdirs, defaultExists, now, ev, ncalls>>

\* for chunk in response.iter_content(chunk_size=8192): f.write(chunk), one
\* step of it, the write to the file having any of its outcomes.
WriteChunk(p) ==
    /\ p \in DOMAIN dl
    /\ dl[p].pc = "write"
    /\ dl[p].wr # <<>> \/ dl[p].pieces # <<>>
    /\ \E n \in WriteCounts(dl[p].pos, Size(WriteData(dl[p], bufferSize, fullDirect))) : WriteBytes(p, n)

\* The exception that leaves the with block, if any: the one f.write raised,
\* or the one iter_content raised after its last chunk.
BlockExc(d) == IF d.exc # "none" THEN d.exc ELSE d.brk

\* After the close: the exception that left the block, if any, goes on.
AfterClose(d) ==
    IF BlockExc(d) # "none" THEN Raise(d, BlockExc(d))
    ELSE [Closed(d) EXCEPT !.pc = "verify"]

\* The end of the with block, left normally (the chunks are over) or by an
\* exception: the file is closed, which writes what is in the buffer to the
\* file, one write a step. A short write is followed by another write; a
\* write that fails (OSError) ends the close, and what was not written is
\* lost.
CloseFile(p) ==
    /\ p \in DOMAIN dl
    /\ dl[p].pc = "write"
    /\ dl[p].exc # "none" \/ (dl[p].pieces = <<>> /\ dl[p].wr = <<>>)
    /\ LET d == dl[p]
       IN IF d.buf = <<>>
          THEN /\ files' = files
               /\ dl' = [dl EXCEPT ![p] = AfterClose(d)]
          ELSE \E n \in WriteCounts(d.pos, Size(d.buf)) :
                IF n = -1
                THEN /\ dl' = [dl EXCEPT ![p] = Raise(d, "OSError")]
                     /\ files' = files
                ELSE /\ files' = RawWrite(files, d.path, d.pos, TakeBytes(d.buf, n))
                     /\ dl' = [dl EXCEPT ![p] =
                                IF n = Size(d.buf) THEN AfterClose(d)
                                ELSE [d EXCEPT !.buf = DropBytes(@, n), !.pos = @ + n]]
    /\ UNCHANGED <<bufferSize, fullDirect, dirExists, subdirs, defaultExists, now, ev, ncalls>>

\* Mutant of SavedOk: the file is not looked at.
SavedOkAny(exists, size) == TRUE
\* not (not os.path.exists(cached_path) or os.path.getsize(cached_path) == 0)
SavedOk(exists, size) == exists /\ size # 0

\* The post-write check, first operand: os.path.exists(cached_path). The
\* trace keeps what the file system answered.
Verify(p) ==
    /\ p \in DOMAIN dl
    /\ dl[p].pc = "verify"
    /\ LET d == dl[p]
       IN dl' = [dl EXCEPT ![p] =
                    IF d.path \in DOMAIN files
                    THEN [d EXCEPT !.pc = "size"]
                    ELSE Continue(Log(d, "stat", "missing", 0))]
    /\ UNCHANGED <<bufferSize, fullDirect, dirExists, files, subdirs, defaultExists, now, ev, ncalls>>

\* The post-write check, second operand: os.path.getsize(cached_path), which
\* raises when the file is no longer there.
VerifySize(p) ==
    /\ p \in DOMAIN dl
    /\ dl[p].pc = "size"
    /\ LET d == dl[p]
       IN dl' = [dl EXCEPT ![p] =
                    IF d.path \notin DOMAIN files
                    THEN Raise(d, "FileNotFoundError")
                    ELSE LET size == Size(files[d.path].data)
                             d1 == Log(d, "stat", IF size = 0 THEN "empty" ELSE "nonempty", 0)
                         IN IF SavedOk(TRUE, size)
                            THEN [d1 EXCEPT !.pc = "saved"]
                            ELSE Continue(d1)]
    /\ UNCHANGED <<bufferSize, fullDirect, dirExists, files, subdirs, defaultExists, now, ev, ncalls>>

\* return cached_path, after a verified save.
ReturnSaved(p) ==
    /\ p \in DOMAIN dl
    /\ dl[p].pc = "saved"
    /\ dl' = [dl EXCEPT ![p] = [@ EXCEPT !.pc = "done", !.ret = RetStr(dl[p].path)]]
    /\ UNCHANGED <<bufferSize, fullDirect, dirExists, files, subdirs, defaultExists, now, ev, ncalls>>

\* Mutant of ShouldSleep: no sleep after the first attempt.
ShouldSleepNotFirst(attempt) == 0 < attempt /\ attempt < IMAGE_DOWNLOAD_MAX_RETRIES - 1
\* attempt < Config.IMAGE_DOWNLOAD_MAX_RETRIES - 1
ShouldSleep(attempt) == attempt < IMAGE_DOWNLOAD_MAX_RETRIES - 1

\* Config.IMAGE_DOWNLOAD_RETRY_DELAYS[attempt] (Python indexes from 0).
RetryDelay(attempt) == IMAGE_DOWNLOAD_RETRY_DELAYS[attempt + 1]

\* The statement after the try block: sleep unless this was the last attempt.
Backoff(p) ==
    /\ p \in DOMAIN dl
    /\ dl[p].pc = "backoff"
    /\ LET d == dl[p]
       IN dl' = [dl EXCEPT ![p] =
                    IF ShouldSleep(d.attempt)
                    THEN Continue(Log(d, "sleep", "", RetryDelay(d.attempt)))
                    ELSE Continue(d)]
    /\ UNCHANGED <<bufferSize, fullDirect, dirExists, files, subdirs, defaultExists, now, ev, ncalls>>

\* After the loop: the default image if it exists, else None.
Fallback(p) ==
    /\ p \in DOMAIN dl
    /\ dl[p].pc = "fallback"
    /\ LET d == Log(dl[p], "default", "", 0)
       IN dl' = [dl EXCEPT ![p] =
                    IF defaultExists
                    THEN [d EXCEPT !.pc = "done", !.ret = RetStr(DEFAULT_IMAGE_PATH)]
                    ELSE [d EXCEPT !.pc = "done", !.ret = RetNone]]
    /\ UNCHANGED <<bufferSize, fullDirect, dirExists, files, subdirs, defaultExists, now, ev, ncalls>>

\* ------------------------------------------------------ clear_old_cache
\* Budgets a caller may pass as max_cache_size_mb: absent, or 0..MaxBudget.
BudgetArgs == {PyNone} \cup {PyInt(n) : n \in 0..MaxBudget}

\* Every order in which os.listdir may return the members of S.
Listings(S) ==
    {s \in [1..Cardinality(S) -> S] : \A i, j \in 1..Cardinality(S) : s[i] = s[j] => i = j}

RECURSIVE InsertByKey(_, _, _)
\* x placed into the sorted sequence s behind every element whose key is <= its own.
InsertByKey(x, s, key) ==
    IF s = <<>> THEN <<x>>
    ELSE IF key[s[1]] <= key[x] THEN <<s[1]>> \o InsertByKey(x, Tail(s), key)
    ELSE <<x>> \o s

\* Mutant of SortByKey: the listing order is kept.
SortByKeyNone(s, key) == s
RECURSIVE SortByKey(_, _)
\* list.sort(key=...): ascending and stable.
SortByKey(s, key) ==
    IF s = <<>> THEN <<>>
    ELSE InsertByKey(s[Len(s)], SortByKey(SubSeq(s, 1, Len(s) - 1), key), key)

\* max_cache_size_mb or Config.IMAGE_CACHE_MAX_SIZE_MB
MaxSize(max_cache_size_mb) ==
    IF Truthy(max_cache_size_mb) THEN max_cache_size_mb.num ELSE IMAGE_CACHE_MAX_SIZE_MB

\* Mutant of EvCaught: the failing file is skipped and the loop goes on.
EvCaughtSkip(e) == [e EXCEPT !.pc = "loop", !.err = TRUE]
\* Mutant of EvCaught: the exception leaves clear_old_cache.
EvUncaught(e) == [e EXCEPT !.pc = "done", !.err = TRUE, !.raised = TRUE]
\* An exception inside the try block of clear_old_cache: logged, not re-raised.
EvCaught(e) == [e EXCEPT !.pc = "done", !.err = TRUE]

\* Entry of clear_old_cache.
clear_old_cache(max_cache_size_mb) ==
    /\ ev.pc \in {"idle", "done"}
    /\ ncalls < MaxCalls
    /\ ncalls' = ncalls + 1
    /\ ev' = [EvIdle EXCEPT !.pc = "list", !.arg = max_cache_size_mb,
                            !.pre = [dir |-> dirExists, files |-> files]]
    /\ UNCHANGED <<bufferSize, fullDirect, dirExists, files, subdirs, defaultExists, now, dl>>

\* os.path.isfile(os.path.join(cache_dir, f))
IsFile(q) == q \in DOMAIN files

\* os.listdir(cache_dir): the names of the directory in any order, or an
\* exception when the directory is missing.
EvictList ==
    /\ ev.pc = "list"
    /\ IF ~dirExists
       THEN ev' = EvCaught(ev)
       ELSE \E listing \in Listings(DOMAIN files \cup subdirs) :
                ev' = [ev EXCEPT !.pc = IF listing = <<>> THEN "sort" ELSE "isfile",
                                 !.names = listing]
    /\ UNCHANGED <<bufferSize, fullDirect, dirExists, files, subdirs, defaultExists, now, dl, ncalls>>

\* The filter of the list comprehension for the next name of the listing:
\* a name os.path.isfile finds to be a regular file is kept.
EvictIsFile ==
    /\ ev.pc = "isfile"
    /\ LET f == Head(ev.names)
           e == [ev EXCEPT !.names = Tail(@),
                           !.pc = IF Tail(ev.names) = <<>> THEN "sort" ELSE "isfile"]
       IN ev' = IF IsFile(f)
                THEN [e EXCEPT !.cached_files = Append(@, f), !.listed = @ \cup {f}]
                ELSE e
    /\ UNCHANGED <<bufferSize, fullDirect, dirExists, files, subdirs, defaultExists, now, dl, ncalls>>

\* cached_files.sort(key=os.path.getmtime), one os.path.getmtime a step: the
\* key of the next file of the list is read (getmtime raises for a missing
\* file); with the last key read the list is sorted by the keys read. An
\* empty list is sorted without a read.
EvictSort ==
    /\ ev.pc = "sort"
    /\ LET rest == SelectSeq(ev.cached_files, LAMBDA q : q \notin DOMAIN ev.keys)
       IN IF rest = <<>>
          THEN ev' = [ev EXCEPT !.pc = "sum"]
          ELSE IF rest[1] \notin DOMAIN files
          THEN ev' = EvCaught(ev)
          ELSE LET keys == [q \in DOMAIN ev.keys \cup {rest[1]} |->
                                IF q = rest[1] THEN files[q].mtime ELSE ev.keys[q]]
               IN ev' = IF Len(rest) > 1
                        THEN [ev EXCEPT !.keys = keys]
                        ELSE [ev EXCEPT !.pc = "sum",
                                        !.cached_files = SortByKey(@, keys),
                                        !.keys = keys]
    /\ UNCHANGED <<bufferSize, fullDirect, dirExists, files, subdirs, defaultExists, now, dl, ncalls>>

\* sum(os.path.getsize(f) for f in cached_files), one os.path.getsize a step:
\* the size of the next file of the list is added (getsize raises for a
\* missing file); after the last one the budget is worked out.
EvictSum ==
    /\ ev.pc = "sum"
    /\ IF ev.cached_files = <<>>
       THEN ev' = [ev EXCEPT !.pc = "loop", !.max_size = MaxSize(ev.arg)]
       ELSE LET f == ev.cached_files[ev.nsizes + 1]
            IN IF f \notin DOMAIN files
               THEN ev' = EvCaught(ev)
               ELSE LET e == [ev EXCEPT !.total = @ + Size(files[f].data), !.nsizes = @ + 1]
                    IN ev' = IF e.nsizes < Len(ev.cached_files)
                             THEN e
                             ELSE [e EXCEPT !.pc = "loop", !.max_size = MaxSize(ev.arg)]
    /\ UNCHANGED <<bufferSize, fullDirect, dirExists, files, subdirs, defaultExists, now, dl, ncalls>>

\* Whether total_size_mb > max_size can be evaluated: a number against a
\* string raises TypeError.
Comparable(max_cache_size_mb) == ~(Truthy(max_cache_size_mb) /\ IsStr(max_cache_size_mb))

\* Mutant of OverBudget: a cache exactly at its budget counts as over it.
OverBudgetOrEqual(total, max_size) == total >= max_size * MB
\* total_size_mb > max_size, with total_size_mb = bytes / (1024 * 1024)
OverBudget(total, max_size) == total > max_size * MB

\* The loop test, cached_files.pop(0) and os.remove(oldest_file).
EvictLoop ==
    /\ ev.pc = "loop"
    /\ IF ~Comparable(ev.arg)
       THEN /\ files' = files
            /\ ev' = EvCaught(ev)
       ELSE IF OverBudget(ev.total, ev.max_size) /\ ev.cached_files # <<>>
       THEN LET oldest_file == ev.cached_files[1]
                e == [ev EXCEPT !.cached_files = Tail(@), !.oldest = oldest_file]
            IN IF oldest_file \in DOMAIN files
               THEN /\ files' = [q \in DOMAIN files \ {oldest_file} |-> files[q]]
                    /\ ev' = [e EXCEPT !.pc = "subtract", !.deleted = Append(@, oldest_file)]
               ELSE /\ files' = files
                    /\ ev' = EvCaught(e)
       ELSE /\ files' = files
            /\ ev' = [ev EXCEPT !.pc = "done"]
    /\ UNCHANGED <<bufferSize, fullDirect, dirExists, subdirs, defaultExists, now, dl, ncalls>>

\* total_size_mb -= os.path.getsize(oldest_file) / (1024 * 1024), evaluated
\* after the file was removed: getsize raises unless the path exists again.
EvictSubtract ==
    /\ ev.pc = "subtract"
    /\ IF ev.oldest \in DOMAIN files
       THEN ev' = [ev EXCEPT !.pc = "loop", !.total = @ - Size(files[ev.oldest].data)]
       ELSE ev' = EvCaught(ev)
    /\ UNCHANGED <<bufferSize, fullDirect, dirExists, files, subdirs, defaultExists, now, dl, ncalls>>

\* ------------------------------------------------------- specifications
\* The caller of the sequential specifications.
MainCaller == "main"

\* A complete file left by an earlier run.
OldFile(size, t) == [data |-> <<Extent("old", 0, size)>>, mtime |-> t]

\* Sequential download_image calls on a cache that holds complete entries.
Init ==
    /\ dirExists \in BOOLEAN
    /\ \E present \in SUBSET UrlPaths :
        /\ dirExists \/ present = {}
        /\ files = [q \in present |-> OldFile(MB, 0)]
    /\ subdirs = {}
    /\ defaultExists \in BOOLEAN
    /\ now = MaxTime
    /\ dl = [p \in {} |-> DlIdle]
    /\ ev = EvIdle
    /\ ncalls = 0
    /\ bufferSize = BLOCK_SIZE
    /\ fullDirect = FALSE

DlStep(p) ==
    \/ Resolve(p)
    \/ CacheCheck(p)
    \/ ReturnCached(p)
    \/ HttpGet(p)
    \/ OpenFile(p)
    \/ WriteChunk(p)
    \/ CloseFile(p)
    \/ Verify(p)
    \/ VerifySize(p)
    \/ ReturnSaved(p)
    \/ Backoff(p)
    \/ Fallback(p)

Next ==
    \/ \E u \in UrlArgs, f \in BOOLEAN : AllIdle /\ download_image(MainCaller, u, f)
    \/ DlStep(MainCaller)

Spec == Init /\ [][Next]_vars

\* Sizes of the files an earlier run left in the cache directory.
InitSizes == {MB \div 2, MB, 2 * MB}

\* Sequential clear_old_cache calls on any cache directory.
InitEvict ==
    /\ dirExists \in BOOLEAN
    /\ \E present \in SUBSET Paths :
        /\ dirExists \/ present = {}
        /\ files \in [present -> {OldFile(sz, t) : sz \in InitSizes, t \in 0..MaxTime}]
    /\ subdirs \in SUBSET {SubdirPath}
    /\ dirExists \/ subdirs = {}
    /\ defaultExists = FALSE
    /\ now = MaxTime
    /\ dl = [p \in {} |-> DlIdle]
    /\ ev = EvIdle
    /\ ncalls = 0
    /\ bufferSize = BLOCK_SIZE
    /\ fullDirect = FALSE

NextEvict ==
    \/ \E b \in BudgetArgs : AllIdle /\ clear_old_cache(b)
    \/ EvictList
    \/ EvictIsFile
    \/ EvictSort
    \/ EvictSum
    \/ EvictLoop
    \/ EvictSubtract

SpecEvict == InitEvict /\ [][NextEvict]_vars

\* Budgets of any type a caller may pass: BudgetArgs and a string.
BudgetArgsAny == BudgetArgs \cup {PyStr(<<"x">>)}

\* clear_old_cache is between its entry and its return.
EvRunning == ev.pc \notin {"idle", "done"}

\* Another process removes a file of the cache directory while
\* clear_old_cache runs.
ExternalDelete(q) ==
    /\ EvRunning
    /\ now < MaxTime
    /\ q \in DOMAIN files
    /\ now' = now + 1
    /\ files' = [r \in DOMAIN files \ {q} |-> files[r]]
    /\ UNCHANGED <<bufferSize, fullDirect, dirExists, subdirs, defaultExists, dl, ev, ncalls>>

\* Another process writes a file into the cache directory while
\* clear_old_cache runs.
ExternalCreate(q) ==
    /\ EvRunning
    /\ now < MaxTime
    /\ dirExists
    /\ q \notin DOMAIN files
    /\ now' = now + 1
    /\ files' = [r \in DOMAIN files \cup {q} |-> IF r = q THEN OldFile(MB, now') ELSE files[r]]
    /\ UNCHANGED <<bufferSize, fullDirect, dirExists, subdirs, defaultExists, dl, ev, ncalls>>

\* One clear_old_cache call on a directory other processes change meanwhile;
\* the files of earlier runs are at most as new as the clock.
InitEnv ==
    /\ dirExists \in BOOLEAN
    /\ \E present \in SUBSET Paths :
        /\ dirExists \/ present = {}
        /\ files \in [present -> {OldFile(MB, 0 - t) : t \in 0..MaxTime}]
    /\ subdirs \in SUBSET {SubdirPath}
    /\ dirExists \/ subdirs = {}
    /\ defaultExists = FALSE
    /\ now = 0
    /\ dl = [p \in {} |-> DlIdle]
    /\ ev = EvIdle
    /\ ncalls = 0
    /\ bufferSize = BLOCK_SIZE
    /\ fullDirect = FALSE

NextEnv ==
    \/ \E b \in BudgetArgsAny : ev.pc = "idle" /\ clear_old_cache(b)
    \/ EvictList
    \/ EvictIsFile
    \/ EvictSort
    \/ EvictSum
    \/ EvictLoop
    \/ EvictSubtract
    \/ \E q \in Paths : ExternalDelete(q)
    \/ \E q \in Paths : ExternalCreate(q)

SpecEnv == InitEnv /\ [][NextEnv]_vars

\* One download_image call for a cached URL, whose entry is the oldest file,
\* and one clear_old_cache call, each started at any moment, their steps
\* interleaved in any order. Both files were written before the clock's
\* present value, so a file the call writes is newer than either.
InitRace ==
    /\ dirExists = TRUE
    /\ files = [q \in {OtherPath, get_cached_image_path(U1)} |->
                    IF q = OtherPath THEN OldFile(MB, MaxTime - 1) ELSE OldFile(MB, 0)]
    /\ subdirs = {}
    /\ defaultExists = TRUE
    /\ now = MaxTime
    /\ dl = [p \in {} |-> DlIdle]
    /\ ev = EvIdle
    /\ ncalls = 0
    /\ bufferSize = BLOCK_SIZE
    /\ fullDirect = FALSE

\* The budget of the race: one megabyte, which the cache is over, or just at
\* while the entry is being written again.
RaceBudgets == {PyInt(1)}

NextRace ==
    \/ \E f \in BOOLEAN : MainCaller \notin DOMAIN dl /\ download_image(MainCaller, PyStr(U1), f)
    \/ \E b \in RaceBudgets : ev.pc = "idle" /\ clear_old_cache(b)
    \/ DlStep(MainCaller)
    \/ EvictList
    \/ EvictIsFile
    \/ EvictSort
    \/ EvictSum
    \/ EvictLoop
    \/ EvictSubtract

SpecRace == InitRace /\ [][NextRace]_vars

\* The second caller of the concurrent specification.
OtherCaller == "other"
Callers == {MainCaller, OtherCaller}

\* An attempt of p receives a complete, non-empty image body.
GetComplete(p) == \E r \in CompleteResponses : GetResponse(p, r)

\* open(cached_path, 'wb') of p succeeds.
OpenOk(p) == OpenFile(p) /\ dl'[p].pc = "write"

\* A step of f.write of p on which the disk does not fail: no error, no
\* short write.
WriteOk(p) ==
    /\ p \in DOMAIN dl
    /\ dl[p].pc = "write"
    /\ dl[p].wr # <<>> \/ dl[p].pieces # <<>>
    /\ WriteBytes(p, Size(WriteData(dl[p], bufferSize, fullDirect)))

\* The file of p is closed without an error.
CloseOk(p) == CloseFile(p) /\ dl'[p].pc = "verify"

\* The steps of a call on which neither the network nor the disk fails.
DlStepOk(p) ==
    \/ Resolve(p)
    \/ CacheCheck(p)
    \/ ReturnCached(p)
    \/ GetComplete(p)
    \/ OpenOk(p)
    \/ WriteOk(p)
    \/ CloseOk(p)
    \/ Verify(p)
    \/ VerifySize(p)
    \/ ReturnSaved(p)
    \/ Fallback(p)

\* Two download_image calls for the same URL, each started at any moment,
\* their steps interleaved in any order; every response is complete.
InitConc ==
    /\ dirExists = TRUE
    /\ \E present \in SUBSET {get_cached_image_path(U1)} :
        files = [q \in present |-> OldFile(MB, 0)]
    /\ subdirs = {}
    /\ defaultExists \in BOOLEAN
    /\ now = MaxTime
    /\ dl = [p \in {} |-> DlIdle]
    /\ ev = EvIdle
    /\ ncalls = 0
    /\ bufferSize \in BufferSizes
    /\ fullDirect \in BOOLEAN

NextConc ==
    \/ \E p \in Callers, f \in BOOLEAN :
            p \notin DOMAIN dl /\ download_image(p, PyStr(U1), f)
    \/ \E p \in Callers : DlStepOk(p)

SpecConc == InitConc /\ [][NextConc]_vars

\* ------------------------------------------------- reading a call's trace
\* Positions of the events of kind op in a trace.
At(log, op) == {i \in DOMAIN log : log[i].op = op}

\* Number of network attempts (requests.get calls) of a call.
NGets(d) == Cardinality(At(d.log, "get"))

\* The delays the call slept, in order.
SleepsOf(d) ==
    LET s == SelectSeq(d.log, LAMBDA e : e.op = "sleep")
    IN [i \in DOMAIN s |-> s[i].n]

\* The delay schedule a call that fails on every attempt goes through.
FullBackoff == SubSeq(IMAGE_DOWNLOAD_RETRY_DELAYS, 1, IMAGE_DOWNLOAD_MAX_RETRIES - 1)

\* What download_image returns once the attempts are over.
FallbackRet == IF defaultExists THEN RetStr(DEFAULT_IMAGE_PATH) ELSE RetNone

\* The image_url of the call is a non-empty string.
ValidUrl(d) == d.url.tag = "str" /\ d.url.str # <<>>

\* Every attempt of the call so far failed in requests.get / raise_for_status
\* with a requests exception (connection error, timeout, request error, status).
AllTransient(d) ==
    /\ NGets(d) >= 1
    /\ \A i \in At(d.log, "get") :
        /\ i < Len(d.log)
        /\ d.log[i + 1] = Event("raise", "requests", 0)

\* Content-type names that do not begin with "image/".
NonImageNames == {"text/html", "image", ""}

\* Every attempt of the call so far got a successful response whose content
\* type does not begin with "image/".
AllMismatch(d) ==
    /\ NGets(d) >= 1
    /\ \A i \in At(d.log, "get") :
        /\ i < Len(d.log)
        /\ d.log[i + 1].op = "response"
        /\ d.log[i + 1].cls \in NonImageNames

\* The state of the cache entry at path in a set of files.
Entry(fl, path) == IF path \in DOMAIN fl THEN <<fl[path]>> ELSE <<>>

RECURSIVE SumOver(_, _)
\* Sum of the sizes of the files S of a directory.
SumOver(S, fl) ==
    IF S = {} THEN 0
    ELSE LET q == CHOOSE x \in S : TRUE
         IN Size(fl[q].data) + SumOver(S \ {q}, fl)

\* Total size in bytes of the regular files of a directory.
TotalSize(fl) == SumOver(DOMAIN fl, fl)

\* ----------------------------------------------------------------- C1
\* C1 (as stated): when clear_old_cache has returned, the files left in the
\* cache directory total at most the budget the call worked with, or no
\* regular file is left.
C1_EvictionPostcondition ==
    ev.pc = "done" =>
        \/ TotalSize(files) <= MaxSize(ev.arg) * MB
        \/ DOMAIN files = {}

\* ----------------------------------------------------------------- C2
\* C2: a call whose every attempt fails transiently makes exactly
\* IMAGE_DOWNLOAD_MAX_RETRIES attempts, sleeps IMAGE_DOWNLOAD_RETRY_DELAYS[i]
\* right after the failure of attempt i for every attempt but the last, does
\* not sleep after the last, and returns the default image path if that file
\* exists, else None.
C2_TransientExhaustion ==
    \A p \in DOMAIN dl :
        LET d == dl[p]
        IN d.pc = "done" /\ AllTransient(d) =>
            /\ NGets(d) = IMAGE_DOWNLOAD_MAX_RETRIES
            /\ SleepsOf(d) = FullBackoff
            /\ \A i \in At(d.log, "get") :
                IF d.log[i].n < IMAGE_DOWNLOAD_MAX_RETRIES - 1
                THEN d.log[i + 2] = Event("sleep", "", IMAGE_DOWNLOAD_RETRY_DELAYS[d.log[i].n + 1])
                ELSE d.log[i + 2].op = "default"
            /\ d.ret = FallbackRet

\* A forced download of a cached URL went through all its attempts, each a
\* transient failure, and fell back to the default image.
C2_Witness ==
    \E p \in DOMAIN dl :
        /\ dl[p].pc = "done"
        /\ AllTransient(dl[p])
        /\ dl[p].force
        /\ dl[p].path \in DOMAIN dl[p].pre.files
        /\ NGets(dl[p]) = IMAGE_DOWNLOAD_MAX_RETRIES
        /\ dl[p].ret = RetStr(DEFAULT_IMAGE_PATH)

\* ----------------------------------------------------------------- C3
\* The data are one complete body: an entry of an earlier run, or a whole response.
IsComplete(data) ==
    /\ Len(data) = 1
    /\ data[1].lo = 0
    /\ \/ data[1].b = "old"
       \/ \E body \in Bodies : body.id = data[1].b /\ body.len = data[1].hi

\* C3 (as stated): whenever download_image returns the resolved cache path, a
\* file exists there, and it is non-empty and holds a complete body.
C3_ReturnedPathIsComplete ==
    \A p \in DOMAIN dl :
        LET d == dl[p]
        IN d.pc = "done" /\ d.ret = RetStr(d.path) =>
            /\ d.path \in DOMAIN files
            /\ Size(files[d.path].data) > 0
            /\ IsComplete(files[d.path].data)

\* ----------------------------------------------------------------- C4
\* A valid URL, force_download false, and a file at its path when the call starts.
CacheHitCase(d) ==
    /\ ValidUrl(d)
    /\ ~d.force
    /\ get_cached_image_path(d.url.str) \in DOMAIN d.pre.files

\* C4: with force_download false and a file at the resolved path when the
\* call starts, the call makes no network request, does not sleep, opens no
\* file for writing, leaves the directory as it was, and returns that path.
C4_CacheHit ==
    \A p \in DOMAIN dl :
        LET d == dl[p]
        IN CacheHitCase(d) =>
            /\ At(d.log, "get") = {}
            /\ At(d.log, "sleep") = {}
            /\ At(d.log, "open") = {}
            /\ files = d.pre.files
            /\ d.pc \in {"resolve", "check", "hit", "done"}
            /\ d.pc = "done" => d.ret = RetStr(get_cached_image_path(d.url.str))

C4_Witness ==
    \E p \in DOMAIN dl :
        /\ CacheHitCase(dl[p])
        /\ dl[p].pc = "done"
        /\ dl[p].ret = RetStr(dl[p].path)
        /\ dl[p].path \in DOMAIN files

\* ----------------------------------------------------------------- C5
\* C5 (as stated): a call whose every response has a non-image content type
\* sleeps as a call whose every attempt raises a connection error does: the
\* configured delay after every attempt but the last.
C5_MismatchBacksOff ==
    \A p \in DOMAIN dl :
        LET d == dl[p]
        IN d.pc = "done" /\ AllMismatch(d) => SleepsOf(d) = FullBackoff

\* ----------------------------------------------------------------- C6
\* C6: a call whose every response has a non-image content type never opens
\* the cache file, leaves the entry (and the directory) as it was, makes
\* IMAGE_DOWNLOAD_MAX_RETRIES attempts and returns the default image path if
\* that file exists, else None.
C6_MismatchNeverWrites ==
    \A p \in DOMAIN dl :
        LET d == dl[p]
        IN AllMismatch(d) =>
            /\ At(d.log, "open") = {}
            /\ Entry(files, d.path) = Entry(d.pre.files, d.path)
            /\ files = d.pre.files
            /\ d.pc = "done" =>
                /\ NGets(d) = IMAGE_DOWNLOAD_MAX_RETRIES
                /\ d.ret = FallbackRet

\* A forced download of a cached URL got a non-image response on every
\* attempt and ended with the entry in place.
C6_Witness ==
    \E p \in DOMAIN dl :
        /\ dl[p].pc = "done"
        /\ AllMismatch(dl[p])
        /\ dl[p].force
        /\ dl[p].path \in DOMAIN dl[p].pre.files
        /\ NGets(dl[p]) = IMAGE_DOWNLOAD_MAX_RETRIES

\* ----------------------------------------------------------------- C7
\* Event i of the call is a PermissionError or another non-requests exception.
FatalAt(d, i) == d.log[i].op = "raise" /\ d.log[i].cls \in {"permission", "other"}

\* C7: once a PermissionError, or any exception that is not a requests
\* exception, is raised during an attempt, the call makes no further attempt
\* and does not sleep: the attempt that raised is the last one, the next
\* operation is the default-image check, and the call returns the default
\* image path if that file exists, else None.
C7_FatalNotRetried ==
    \A p \in DOMAIN dl :
        LET d == dl[p]
        IN \A i \in DOMAIN d.log :
            FatalAt(d, i) =>
                /\ \A j \in DOMAIN d.log : j > i => d.log[j].op = "default"
                /\ d.pc \in {"fallback", "done"}
                /\ d.pc = "done" => d.ret = FallbackRet

\* A permission error on the first write: one network attempt, then fallback.
C7_Witness ==
    \E p \in DOMAIN dl :
        /\ dl[p].pc = "done"
        /\ \E i \in DOMAIN dl[p].log :
            /\ dl[p].log[i] = Event("raise", "permission", 0)
            /\ dl[p].log[i - 1].op = "open"
        /\ NGets(dl[p]) = 1
        /\ At(dl[p].log, "sleep") = {}
        /\ dl[p].ret = FallbackRet

\* ----------------------------------------------------------------- C8
\* C8 (as stated): for a non-empty string URL no exception leaves
\* download_image, whichever step fails.
C8_NeverRaises ==
    \A p \in DOMAIN dl : ValidUrl(dl[p]) => dl[p].ret.kind # "raised"

\* ----------------------------------------------------------------- C9
\* None, the empty string, or not a string.
InvalidArg(x) == x.tag = "none" \/ (x.tag = "str" /\ x.str = <<>>) \/ x.tag # "str"

\* C9: for None, the empty string or a non-string, download_image returns
\* None with no network request and no filesystem change: the directory is
\* not created, no path is resolved, the default image is not looked at.
C9_InvalidInput ==
    \A p \in DOMAIN dl :
        LET d == dl[p]
        IN InvalidArg(d.url) =>
            /\ d.pc = "done"
            /\ d.ret = RetNone
            /\ d.log = <<>>
            /\ d.path = NoPath
            /\ dirExists = d.pre.dir
            /\ files = d.pre.files

\* A non-string argument, with a default image present and no cache directory.
C9_Witness ==
    \E p \in DOMAIN dl :
        /\ dl[p].pc = "done"
        /\ dl[p].url = PyInt(5)
        /\ dl[p].ret = RetNone
        /\ defaultExists
        /\ ~dirExists

\* ---------------------------------------------------------------- C10
\* C10 (as stated): the budget clear_old_cache works with is the caller's
\* whenever one is passed, 0 included, and the configured default only when
\* the argument is None.
C10_BudgetUsed ==
    ev.pc \in {"loop", "subtract"} =>
        ev.max_size = IF ev.arg = PyNone THEN IMAGE_CACHE_MAX_SIZE_MB ELSE ev.arg.num

\* ---------------------------------------------------------------- C11
\* Any step of a running clear_old_cache call.
EvictStep == EvictList \/ EvictIsFile \/ EvictSort \/ EvictSum \/ EvictLoop \/ EvictSubtract

\* C11: clear_old_cache never raises. Whatever the directory is (missing,
\* empty, holding subdirectories, losing or gaining files while the call
\* runs) and whatever budget is passed, no exception leaves the call, and a
\* running call always has a next step, up to its return.
C11_ClearNeverRaises ==
    /\ ~ev.raised
    /\ EvRunning => ENABLED EvictStep

\* A call that returned after a listed file had vanished under it, in a
\* directory that also holds a subdirectory.
C11_Witness ==
    /\ ev.pc = "done"
    /\ ev.err
    /\ dirExists
    /\ subdirs # {}
    /\ Comparable(ev.arg)
    /\ ev.deleted = <<>>
    /\ ev.listed # {}

\* ---------------------------------------------------------------- C12
\* C12: a clear_old_cache call that finds the total size of the files at or
\* under its budget deletes nothing: at every step of the call, and when it
\* has returned, the directory holds what it held when the call started (so
\* a second call in succession finds, and leaves, the same contents).
C12_UnderBudgetNoop ==
    (ev.pc # "idle" /\ TotalSize(ev.pre.files) <= MaxSize(ev.arg) * MB) =>
        /\ files = ev.pre.files
        /\ ev.deleted = <<>>
        /\ ~ev.raised

\* The second of two calls has returned from a directory of several files
\* whose total is exactly the budget.
C12_Witness ==
    /\ ncalls = 2
    /\ ev.pc = "done"
    /\ Cardinality(DOMAIN ev.pre.files) >= 2
    /\ TotalSize(ev.pre.files) = MaxSize(ev.arg) * MB
    /\ files = ev.pre.files

\* ---------------------------------------------------------------- C13
\* C13: clear_old_cache evicts oldest first. By the modification times the
\* call read: every file it deleted is at most as new as every listed file
\* it has left in place, the files were deleted in ascending order of these
\* times, and only regular files of the listing, each at most once, were
\* deleted.
C13_OldestFirst ==
    LET del == ev.deleted
        rem == ev.cached_files
    IN del # <<>> =>
        /\ \A i \in DOMAIN del, j \in DOMAIN rem : ev.keys[del[i]] <= ev.keys[rem[j]]
        /\ \A i, j \in DOMAIN del : i < j => ev.keys[del[i]] <= ev.keys[del[j]]
        /\ \A i, j \in DOMAIN del : del[i] = del[j] => i = j
        /\ \A i \in DOMAIN del : del[i] \in ev.listed
        /\ ev.listed \cap subdirs = {}

\* Two files deleted, the older one first, and a newer one left in place.
C13_Witness ==
    /\ ev.pc = "done"
    /\ Len(ev.deleted) = 2
    /\ ev.cached_files # <<>>
    /\ subdirs # {}
    /\ ev.keys[ev.deleted[1]] < ev.keys[ev.deleted[2]]
    /\ ev.keys[ev.deleted[2]] < ev.keys[ev.cached_files[1]]

\* ---------------------------------------------------------------- C18
\* C18: eviction aborts on the first error. The step of clear_old_cache that
\* raises (listing, reading a time or a size, deleting) deletes nothing and
\* ends the call, which returns without raising; from then on that call
\* deletes nothing more, so every file it had not deleted is still there.
C18_AbortOnError ==
    [][/\ ev'.err => (ev'.pc = "done" /\ ~ev'.raised)
       /\ (~ev.err /\ ev'.err) => (files' = files /\ ev'.deleted = ev.deleted)
       /\ (ev.err /\ ncalls' = ncalls) => (files' = files /\ ev'.deleted = ev.deleted)]_vars

\* A call that an error ended after one deletion, while the files it had
\* not reached, all still present, exceed the budget.
C18_Witness ==
    /\ ev.pc = "done"
    /\ ev.err
    /\ Len(ev.deleted) = 1
    /\ ev.cached_files # <<>>
    /\ \A j \in DOMAIN ev.cached_files : ev.cached_files[j] \in DOMAIN files
    /\ TotalSize(files) > MaxSize(ev.arg) * MB

\* ---------------------------------------------------------------- C14
\* C14 (as stated): forced download. A call with a valid URL and
\* force_download true never takes the cache-hit shortcut, whether or not a
\* file is at the resolved path: it has made at least one network attempt
\* when it has ended; and when it returns the resolved path, the file there
\* holds exactly the body of the last response, nothing of what was there
\* before.
C14_ForcedDownload ==
    \A p \in DOMAIN dl :
        LET d == dl[p]
        IN (ValidUrl(d) /\ d.force) =>
            /\ d.pc # "hit"
            /\ d.pc = "done" => NGets(d) >= 1
            /\ (d.pc = "done" /\ d.ret = RetStr(d.path)) =>
                /\ d.path \in DOMAIN files
                /\ files[d.path].data = d.recv
                /\ d.recv # <<>>

\* ---------------------------------------------------------------- C15
\* The cache path of each modelled URL, worked out by hand: the digest of
\* the whole URL, then the extension of the part before '?', or .jpg.
ExpectedPath(url) ==
    IF url = U1
    THEN [dir |-> "cache", name |-> [hash |-> Md5Hex(U1), ext |-> <<".", "p", "n", "g">>]]
    ELSE [dir |-> "cache", name |-> [hash |-> Md5Hex(U2), ext |-> <<".", "j", "p", "g">>]]

\* C15: path resolution is deterministic and independent of the state. In
\* every state (whatever the directory holds, whatever earlier calls did,
\* forced or not) the path a call has resolved for its URL is the one fixed
\* path of that URL; a cache path the call returns is that path, and that
\* path is the only one whose file the call has changed.
C15_PathResolution ==
    \A p \in DOMAIN dl :
        LET d == dl[p]
            expected == ExpectedPath(d.url.str)
        IN ValidUrl(d) =>
            /\ d.path \in {NoPath, expected}
            /\ d.pc \notin {"resolve", "done"} => d.path = expected
            /\ (d.ret.kind = "str" /\ d.ret # RetStr(DEFAULT_IMAGE_PATH)) => d.ret = RetStr(expected)
            /\ \A q \in (DOMAIN files \cup DOMAIN d.pre.files) \ {expected} :
                    Entry(files, q) = Entry(d.pre.files, q)

\* The second call of a run, on the URL with a query string, has written the
\* entry and returned its path.
C15_Witness ==
    \E p \in DOMAIN dl :
        /\ ncalls = 2
        /\ dl[p].url = PyStr(U2)
        /\ dl[p].pc = "done"
        /\ dl[p].ret = RetStr(ExpectedPath(U2))
        /\ files # dl[p].pre.files
        /\ DOMAIN files = {ExpectedPath(U1), ExpectedPath(U2)}

\* ---------------------------------------------------------------- C16
\* C16 (as stated): a failed fetch leaves the cache entry untouched. Whenever
\* a call with a valid URL has returned the default image path or None, the
\* file at the path of its URL is as it was when the call started.
C16_FailedFetchLeavesEntry ==
    \A p \in DOMAIN dl :
        LET d == dl[p]
            path == get_cached_image_path(d.url.str)
        IN (ValidUrl(d) /\ d.pc = "done" /\ d.ret \in {RetStr(DEFAULT_IMAGE_PATH), RetNone}) =>
            Entry(files, path) = Entry(d.pre.files, path)

\* ---------------------------------------------------------------- C17
\* The four terminal outcomes of a call with a valid URL.
IsHitOutcome(d) == d.ret = RetStr(d.path) /\ NGets(d) = 0
IsSuccessOutcome(d) == d.ret = RetStr(d.path) /\ NGets(d) >= 1
IsDefaultOutcome(d) == d.ret = RetStr(DEFAULT_IMAGE_PATH) /\ defaultExists
IsAbsentOutcome(d) == d.ret = RetNone /\ ~defaultExists

\* C17 (as stated): a call with a valid URL makes at most
\* IMAGE_DOWNLOAD_MAX_RETRIES attempts and sleeps at most once fewer, and
\* when it has ended it is in one of the four outcomes: cache hit, success,
\* default fallback (the default image exists) or absent (it does not).
C17_FourOutcomes ==
    \A p \in DOMAIN dl :
        LET d == dl[p]
        IN ValidUrl(d) =>
            /\ NGets(d) <= IMAGE_DOWNLOAD_MAX_RETRIES
            /\ Len(SleepsOf(d)) <= IMAGE_DOWNLOAD_MAX_RETRIES - 1
            /\ d.pc = "done" =>
                \/ IsHitOutcome(d)
                \/ IsSuccessOutcome(d)
                \/ IsDefaultOutcome(d)
                \/ IsAbsentOutcome(d)

\* ---------------------------------------------------------------- C19
\* C19 (as stated): in every interleaving of one clear_old_cache call with
\* one download_image call for a cached URL, whenever download_image returns
\* the resolved cache path, a file exists at that path at the moment of the
\* return.
C19_ReturnedFileExists ==
    [][\A p \in DOMAIN dl :
        (dl[p].pc # "done" /\ dl'[p].pc = "done" /\ dl'[p].ret = RetStr(dl'[p].path))
            => dl'[p].path \in DOMAIN files']_vars

\* What the call's trace ends with.
LastEvent(d) == d.log[Len(d.log)]

\* C19 (amended): in every interleaving of one clear_old_cache call with one
\* download_image call for a cached URL, whenever download_image has
\* returned the resolved cache path, a file was at that path when the call
\* last tested it, which is the last thing it did before returning: the
\* cache-hit test found it, or the post-write check found it non-empty. And
\* a call whose cache-hit test found no file has gone on to the network.
C19_ReturnsCheckedFile ==
    \A p \in DOMAIN dl :
        LET d == dl[p]
        IN /\ (d.pc = "done" /\ d.ret = RetStr(d.path)) =>
                LastEvent(d) \in {Event("exists", "yes", 0), Event("stat", "nonempty", 0)}
           /\ (d.pc = "done" /\ d.ret # RetRaised /\ Event("exists", "no", 0) \in {d.log[i] : i \in DOMAIN d.log}) =>
                NGets(d) >= 1

\* The call has returned the path of its cache hit, and eviction has deleted
\* that file.
C19_Witness ==
    \E p \in DOMAIN dl :
        /\ dl[p].pc = "done"
        /\ dl[p].ret = RetStr(dl[p].path)
        /\ LastEvent(dl[p]) = Event("exists", "yes", 0)
        /\ dl[p].path \notin DOMAIN files
        /\ ev.deleted = <<dl[p].path>>

\* ---------------------------------------------------------------- C20
\* C20 (as stated): last writer wins. When two download_image calls that
\* both downloaded the same URL, every response a complete image body, have
\* returned, the file at the resolved path holds exactly one complete body
\* (no mixture of two bodies, no truncated body), and both calls have
\* returned the resolved path.
C20_LastWriterWins ==
    LET path == get_cached_image_path(U1)
    IN (/\ DOMAIN dl = Callers
        /\ \A p \in Callers : dl[p].pc = "done" /\ NGets(dl[p]) >= 1) =>
            /\ path \in DOMAIN files
            /\ \E body \in Bodies : body.len > 0 /\ files[path].data = FullData(body)
            /\ \A p \in Callers : dl[p].ret = RetStr(path)

====
